---- MODULE Spec2Model ----
(***************************************************************************)
(* ds-down: forwards one URL, magnet link or local file to a Synology      *)
(* Download Station.  Model of src/src/wor/ds_down.py: command line        *)
(* parsing, the logging level, the configuration and password resolver,    *)
(* and the login / create / logout call sequence of send_url.              *)
(*                                                                         *)
(* Python strings are sequences of one-character strings; a literal of the *)
(* source that is never taken apart is a sequence of one token.  None is   *)
(* the one-element sequence <<"<None>">>, which no string of the model     *)
(* contains.                                                               *)
(***************************************************************************)
EXTENDS Integers, Sequences, FiniteSets, TLC

\* ------------------------------------------------------------------ bounds
MaxArgs == 2
MaxOut == 3
MaxV == 30

\* ------------------------------------------------------- strings of Python
None == <<"<None>">>
LF == "\n"

\* Python truthiness of an optional string: None and "" are false.
Truthy(s) == s # None /\ s # <<>>

\* str.startswith
StartsWith(s, p) == Len(s) >= Len(p) /\ SubSeq(s, 1, Len(p)) = p

\* str.rstrip(chars): drops every trailing character that is in chars.
RECURSIVE RStrip(_, _)
RStrip(s, chars) ==
  IF s # <<>> /\ s[Len(s)] \in chars THEN RStrip(SubSeq(s, 1, Len(s) - 1), chars) ELSE s

\* str.rpartition(sep)[2] for a one-character sep: the text after the last
\* sep, the whole string when there is none.
RECURSIVE AfterLast(_, _)
AfterLast(s, sep) ==
  IF s = <<>> THEN <<>>
  ELSE IF s[Len(s)] = sep THEN <<>>
  ELSE AfterLast(SubSeq(s, 1, Len(s) - 1), sep) \o <<s[Len(s)]>>

\* str.count(ch)
RECURSIVE Count(_, _)
Count(s, ch) ==
  IF s = <<>> THEN 0 ELSE (IF Head(s) = ch THEN 1 ELSE 0) + Count(Tail(s), ch)

Digits == {"0", "1", "2", "3", "4", "5", "6", "7", "8", "9"}
DigitVal(c) ==
  CASE c = "0" -> 0 [] c = "1" -> 1 [] c = "2" -> 2 [] c = "3" -> 3 [] c = "4" -> 4
    [] c = "5" -> 5 [] c = "6" -> 6 [] c = "7" -> 7 [] c = "8" -> 8 [] c = "9" -> 9

\* str.isdigit: non-empty and all digits.
IsDigit(s) == s # <<>> /\ \A i \in 1..Len(s) : s[i] \in Digits

\* int(s) of a digit string.
RECURSIVE ParseInt(_)
ParseInt(s) ==
  IF s = <<>> THEN 0 ELSE 10 * ParseInt(SubSeq(s, 1, Len(s) - 1)) + DigitVal(s[Len(s)])

\* str.split(): the number of whitespace-separated words.
RECURSIVE SplitLen(_)
SplitLen(s) ==
  IF s = <<>> THEN 0
  ELSE IF Head(s) = " " THEN SplitLen(Tail(s))
  ELSE IF Len(s) = 1 \/ s[2] = " " THEN 1 + SplitLen(Tail(s))
  ELSE SplitLen(Tail(s))

\* Sequences over S of length at most n.
SeqUpTo(S, n) == UNION {[1..k -> S] : k \in 0..n}

\* --------------------------------------------------------------- variables
VARIABLES
  pc,        \* position of main
  inputs,    \* the option strings process_cmd_line has not consumed yet
  nflags,    \* how many -v / -q occurrences the parser has acted on
  verbose,   \* namespace.verbose
  level,     \* the level given to logging.basicConfig, <<>> before
  add_url,   \* the positional DownloadURL, None when not given
  config,    \* the configuration file read_config found, NoFile before
  username, host, password,  \* what read_config returned
  auth,      \* the sid of the login response
  reqs,      \* the requests issued, in order
  resps,     \* the answers received, in order
  ret,       \* send_url: "none" (not finished), "True", "False", "raised"
  exitcode,  \* <<>> while the process runs, <<n>> once it has exited with n
  cmd, run, pwres  \* get_password: its argument, the subprocess, its outcome

vars == <<pc, inputs, nflags, verbose, level, add_url, config, username, host, password,
          auth, reqs, resps, ret, exitcode, cmd, run, pwres>>

\* ------------------------------------------------------------ get_password
\* What subprocess.check_output does with the command: it returns the
\* output, raises CalledProcessError (non-zero exit status) or raises an
\* OSError (the command cannot be executed at all).
OutChars == {"a", "b", LF}
Outputs == SeqUpTo(OutChars, MaxOut)
RunOk(out) == [kind |-> "ok", output |-> out]
RunNonZero == [kind |-> "CalledProcessError", output |-> <<>>]
RunOSError == [kind |-> "OSError", output |-> <<>>]
Runs == {RunNonZero, RunOSError} \cup {RunOk(o) : o \in Outputs}

Returned(v) == [raised |-> FALSE, value |-> v]
Raised == [raised |-> TRUE, value |-> None]

\* get_password(cmd) with the subprocess behaving as r.  Only
\* CalledProcessError is caught; an empty argument vector (a command of
\* blanks only) and a command that cannot be executed raise out of it.
get_password(c, r) ==
  IF ~Truthy(c) THEN Returned(None)
  ELSE IF SplitLen(c) = 0 THEN Raised
  ELSE IF r.kind = "OSError" THEN Raised
  ELSE IF r.kind = "CalledProcessError" THEN Returned(None)
  ELSE LET pw == AfterLast(RStrip(r.output, {LF}), LF)
       IN  IF pw = <<>> THEN Returned(None) ELSE Returned(pw)

\* ------------------------------------------------------------- read_config
\* A configuration file: NoFile when the path does not exist, otherwise its
\* three options, None for an option the file does not hold.
PasswordCommands == {None, <<>>, <<" ">>, <<"c">>, <<"c", " ", "~">>}
NoFile == [exists |-> FALSE, username |-> None, host |-> None, passwordeval |-> None]
Configs ==
  {NoFile} \cup
  [exists : {TRUE},
   username : {None, <<>>, <<"u">>},
   host : {None, <<>>, <<"h">>},
   passwordeval : PasswordCommands]

\* The subprocess outcomes the pipeline is run against.
PipelineRuns ==
  {RunNonZero, RunOSError, RunOk(<<>>), RunOk(<<LF>>), RunOk(<<"a", LF>>),
   RunOk(<<"a", LF, "b", LF>>)}

\* read_config(config_fn): the 3-tuple, or the exception get_password raised.
read_config(cfg, r) ==
  IF ~cfg.exists
  THEN [raised |-> FALSE, username |-> None, host |-> None, password |-> None]
  ELSE LET pw == get_password(cfg.passwordeval, r)
       IN  [raised |-> pw.raised, username |-> cfg.username, host |-> cfg.host,
            password |-> pw.value]

\* Mutant: the password is not checked.
CredentialsMissingNoPassword(u, h, p) == ~Truthy(u) \/ ~Truthy(h)

\* send_url line 135: "if not username or not host or not password".
CredentialsMissing(u, h, p) == ~Truthy(u) \/ ~Truthy(h) \/ ~Truthy(p)

\* ------------------------------------------- convert_int_to_logging_level
Abs(n) == IF n < 0 THEN -n ELSE n

\* Mutant: the input is not forced into [-2, 2].
convert_int_unclamped(verbosity_level) == Abs(verbosity_level - 3) * 10

convert_int_to_logging_level(verbosity_level) ==
  LET forced == IF verbosity_level > 2 THEN 2
                ELSE IF verbosity_level < -2 THEN -2
                ELSE verbosity_level
  IN  Abs(forced - 3) * 10

\* ------------------------------------------------------- process_cmd_line
\* An option string of the command line: the option and the value argparse
\* hands to its action (None for a bare -v or -q).
OptValues == {None, <<"v">>, <<"q">>, <<"9">>, <<"1", "3">>}
Options == [opt : {"-v", "-q"}, values : OptValues] \cup {[opt |-> "-h", values |-> None]}

\* The default argparse puts in namespace.verbose before any action runs:
\* -v and -q share dest 'verbose', and -v, added first, gives default=10.
VerboseDefault == 10

\* The magnitude Verbose_action / Quiet_action read from values; <<>> when
\* they raise argparse.ArgumentError.
Magnitude(values, letter) ==
  IF values = None THEN <<1>>
  ELSE IF IsDigit(values) THEN <<ParseInt(values)>>
  ELSE IF Count(values, letter) # Len(values) THEN <<>>
  ELSE <<Count(values, letter) + 1>>

\* The download targets of the model.
Targets ==
  { <<"h", "t", "t", "p", ":", "/", "/", "e">>,
    <<"h", "t", "t", "p", "s", ":", "/", "/", "e">>,
    <<"m", "a", "g", "n", "e", "t", ":", "?", "x">>,
    <<"/", "t", "/", "f">>,
    <<"f">>,
    <<"h", "t", "t", "p">> }

\* ------------------------------------------------------------------- state
\* main, right after signal.signal(SIGINT, term_sig_handler): the command
\* line is about to be parsed.
NothingSent ==
  /\ config = NoFile
  /\ username = None /\ host = None /\ password = None
  /\ auth = None
  /\ reqs = <<>> /\ resps = <<>>
  /\ ret = "none"
  /\ exitcode = <<>>

NoPasswordCall == cmd = None /\ run = RunNonZero /\ pwres = Returned(None)

Init ==
  /\ pc = "args"
  /\ inputs \in SeqUpTo(Options, MaxArgs)
  /\ add_url \in Targets \cup {None}
  /\ nflags = 0
  /\ verbose = <<VerboseDefault>>
  /\ level = <<>>
  /\ NothingSent
  /\ NoPasswordCall

PwVars == <<cmd, run, pwres>>
CliVars == <<inputs, nflags, verbose, level, add_url>>
NetVars == <<config, username, host, password, auth, reqs, resps, ret>>

\* parser.error / parser.exit: the process ends inside parse_args.
ParserExit(where, code) ==
  /\ pc' = where
  /\ exitcode' = <<code>>
  /\ UNCHANGED <<inputs, nflags, verbose>>

\* Verbose_action.__call__ on the next option string.
Verbose_action ==
  /\ pc = "args" /\ inputs # <<>> /\ Head(inputs).opt = "-v"
  /\ LET verbosity_level == Magnitude(Head(inputs).values, "v")
     IN  IF verbosity_level = <<>>
         THEN ParserExit("exit_usage", 2)
         ELSE /\ verbose' = <<verbosity_level[1] + verbose[1]>>
              /\ inputs' = Tail(inputs)
              /\ nflags' = nflags + 1
              /\ UNCHANGED <<pc, exitcode>>
  /\ UNCHANGED <<level, add_url, NetVars, PwVars>>

\* Quiet_action.__call__ on the next option string.
Quiet_action ==
  /\ pc = "args" /\ inputs # <<>> /\ Head(inputs).opt = "-q"
  /\ LET verbosity_level == Magnitude(Head(inputs).values, "q")
     IN  IF verbosity_level = <<>>
         THEN ParserExit("exit_usage", 2)
         ELSE /\ verbose' = <<verbose[1] - verbosity_level[1]>>
              /\ inputs' = Tail(inputs)
              /\ nflags' = nflags + 1
              /\ UNCHANGED <<pc, exitcode>>
  /\ UNCHANGED <<level, add_url, NetVars, PwVars>>

\* -h, which ArgumentParser adds: prints the help and exits with 0.
Help ==
  /\ pc = "args" /\ inputs # <<>> /\ Head(inputs).opt = "-h"
  /\ ParserExit("exit_help", 0)
  /\ UNCHANGED <<level, add_url, NetVars, PwVars>>

\* parse_args is through the option strings: without the positional
\* DownloadURL it exits with a usage error, otherwise it returns.
ParseReturn ==
  /\ pc = "args" /\ inputs = <<>>
  /\ IF add_url = None
     THEN ParserExit("exit_usage", 2)
     ELSE /\ pc' = "parsed"
          /\ UNCHANGED <<inputs, nflags, verbose, exitcode>>
  /\ UNCHANGED <<level, add_url, NetVars, PwVars>>

\* main: logging.basicConfig(level=convert_int_to_logging_level(args.verbose))
\* and del args.verbose.
BasicConfig ==
  /\ pc = "parsed"
  /\ level' = <<convert_int_to_logging_level(verbose[1])>>
  /\ verbose' = <<>>
  /\ pc' = "send_url"
  /\ UNCHANGED <<inputs, nflags, add_url, exitcode, NetVars, PwVars>>

\* send_url stops: it returned v, or an exception left it.
Stop(v) == ret' = v /\ pc' = "returning"

\* send_url up to the first request: read_config and the check of its result.
ReadConfig ==
  /\ pc = "send_url"
  /\ \E cfg \in Configs, r \in PipelineRuns :
       LET c == read_config(cfg, r)
       IN  /\ config' = cfg
           /\ IF c.raised
              THEN Stop("raised") /\ UNCHANGED <<username, host, password>>
              ELSE /\ username' = c.username /\ host' = c.host /\ password' = c.password
                   /\ IF CredentialsMissing(c.username, c.host, c.password)
                      THEN Stop("False")
                      ELSE pc' = "login" /\ ret' = ret
  /\ UNCHANGED <<CliVars, auth, reqs, resps, exitcode, PwVars>>

\* ---------------------------------------------------------------- requests
Lit(token) == <<token>>

\* What a requests.post call can come back with: a transport error (an
\* exception of requests), or a response with a status code and a body
\* that is JSON {"success": ..., "data": {"sid": ...}} or is not JSON.
Sids == {Lit("s1"), Lit("s2")}
ConnectionError == [error |-> TRUE, status |-> 0, json |-> FALSE, success |-> FALSE, sid |-> None]
Responses ==
  {ConnectionError}
  \cup [error : {FALSE}, status : {200, 404}, json : {TRUE}, success : BOOLEAN, sid : Sids]
  \cup {[error |-> FALSE, status |-> 200, json |-> FALSE, success |-> FALSE, sid |-> None]}

url_auth(h) == h \o Lit("/webapi") \o Lit("/auth.cgi")
url_ds(h) == h \o Lit("/webapi") \o Lit("/DownloadStation/task.cgi")

NoFiles == <<>>

LoginRequest(u, h, p) ==
  [url |-> url_auth(h),
   data |-> [api |-> Lit("SYNO.API.Auth"), version |-> Lit("2"), method |-> Lit("login"),
             account |-> u, passwd |-> p, session |-> Lit("DownloadStation"),
             format |-> Lit("sid")],
   files |-> NoFiles]

\* The file upload: files = {'file': (add_url, payload)}.
FileRequest(h, sid, target) ==
  [url |-> url_ds(h),
   data |-> [api |-> Lit("SYNO.DownloadStation.Task"), version |-> Lit("1"),
             method |-> Lit("create"), session |-> Lit("DownloadStation"), _sid |-> sid],
   files |-> <<[field |-> "file", filename |-> target]>>]

UriRequest(h, sid, target) ==
  [url |-> url_ds(h),
   data |-> [api |-> Lit("SYNO.DownloadStation.Task"), version |-> Lit("1"),
             method |-> Lit("create"), session |-> Lit("DownloadStation"), _sid |-> sid,
             uri |-> target],
   files |-> NoFiles]

LogoutRequest(h) ==
  [url |-> url_auth(h),
   data |-> [api |-> Lit("SYNO.API.Auth"), version |-> Lit("1"), method |-> Lit("logout"),
             session |-> Lit("DownloadStation")],
   files |-> NoFiles]

\* How send_url takes the answer to each call: "ok" (go on), "False"
\* (return False) or "raised" (requests or json.loads raised).
\* Mutant: the login's "success" is not looked at.
LoginAnswerIgnoresSuccess(r) ==
  IF r.error THEN "raised"
  ELSE IF r.status # 200 THEN "False"
  ELSE IF ~r.json THEN "raised"
  ELSE "ok"

LoginAnswer(r) ==
  IF r.error THEN "raised"
  ELSE IF r.status # 200 THEN "False"
  ELSE IF ~r.json THEN "raised"
  ELSE IF ~r.success THEN "False"
  ELSE "ok"

\* Mutant: a failed task creation goes on to the logout.
CreateAnswerGoesOn(r) ==
  IF r.error THEN "raised"
  ELSE IF r.status = 200 /\ ~r.json THEN "raised"
  ELSE "ok"

CreateAnswer(r) ==
  IF r.error THEN "raised"
  ELSE IF r.status # 200 THEN "False"
  ELSE IF ~r.json THEN "raised"
  ELSE IF ~r.success THEN "False"
  ELSE "ok"

LogoutAnswer(r) ==
  IF r.error THEN "raised"
  ELSE IF r.status # 200 THEN "False"
  ELSE IF ~r.json THEN "raised"
  ELSE IF ~r.success THEN "False"
  ELSE "ok"

\* Mutant: only "http:" is taken for a URI.
IsLocalFileHttpOnly(target) == ~StartsWith(target, <<"h", "t", "t", "p", ":">>)

\* send_url line 164: the target is a local file.
IsLocalFile(target) ==
  /\ ~StartsWith(target, <<"h", "t", "t", "p", ":">>)
  /\ ~StartsWith(target, <<"m", "a", "g", "n", "e", "t", ":">>)

\* ---------------------------------------------------------------- send_url
\* requests.post(url_auth, data=login) is issued and blocks.
LoginSend ==
  /\ pc = "login"
  /\ reqs' = Append(reqs, LoginRequest(username, host, password))
  /\ pc' = "login_wait"
  /\ UNCHANGED <<CliVars, config, username, host, password, auth, resps, ret, exitcode, PwVars>>

LoginRecv ==
  /\ pc = "login_wait"
  /\ \E r \in Responses :
       /\ resps' = Append(resps, r)
       /\ IF LoginAnswer(r) = "ok"
          THEN auth' = r.sid /\ pc' = "create" /\ ret' = ret
          ELSE Stop(LoginAnswer(r)) /\ auth' = auth
  /\ UNCHANGED <<CliVars, config, username, host, password, reqs, exitcode, PwVars>>

\* The task creation request: the file upload, for which the file is
\* opened first (open raises when it cannot be read), or the uri.
CreateSend ==
  /\ pc = "create"
  /\ IF IsLocalFile(add_url)
     THEN \E readable \in BOOLEAN :
            IF readable
            THEN /\ reqs' = Append(reqs, FileRequest(host, auth, add_url))
                 /\ pc' = "create_wait" /\ ret' = ret
            ELSE Stop("raised") /\ reqs' = reqs
     ELSE /\ reqs' = Append(reqs, UriRequest(host, auth, add_url))
          /\ pc' = "create_wait" /\ ret' = ret
  /\ UNCHANGED <<CliVars, config, username, host, password, auth, resps, exitcode, PwVars>>

CreateRecv ==
  /\ pc = "create_wait"
  /\ \E r \in Responses :
       /\ resps' = Append(resps, r)
       /\ IF CreateAnswer(r) = "ok"
          THEN pc' = "logout" /\ ret' = ret
          ELSE Stop(CreateAnswer(r))
  /\ UNCHANGED <<CliVars, config, username, host, password, auth, reqs, exitcode, PwVars>>

LogoutSend ==
  /\ pc = "logout"
  /\ reqs' = Append(reqs, LogoutRequest(host))
  /\ pc' = "logout_wait"
  /\ UNCHANGED <<CliVars, config, username, host, password, auth, resps, ret, exitcode, PwVars>>

LogoutRecv ==
  /\ pc = "logout_wait"
  /\ \E r \in Responses :
       /\ resps' = Append(resps, r)
       /\ Stop(IF LogoutAnswer(r) = "ok" THEN "True" ELSE LogoutAnswer(r))
  /\ UNCHANGED <<CliVars, config, username, host, password, auth, reqs, exitcode, PwVars>>

\* -------------------------------------------------------------------- main
\* "return 0 if send_url(...) else 1", handed to sys.exit by the console
\* script; an exception nobody catches ends the interpreter with status 1.
\* Mutant: only a returned False is a failure.
ExitStatusOnlyFalse(v) == IF v = "False" THEN 1 ELSE 0

ExitStatus(v) == IF v = "True" THEN 0 ELSE 1

MainReturn ==
  /\ pc = "returning"
  /\ exitcode' = <<ExitStatus(ret)>>
  /\ pc' = "exit_main"
  /\ UNCHANGED <<CliVars, NetVars, PwVars>>

Exited == pc \in {"exit_main", "exit_signal", "exit_help", "exit_usage"}

\* term_sig_handler: SIGINT arrives while the process runs; sys.exit(1).
term_sig_handler ==
  /\ pc \in {"args", "parsed", "send_url", "login", "login_wait", "create",
             "create_wait", "logout", "logout_wait", "returning"}
  /\ exitcode' = <<1>>
  /\ pc' = "exit_signal"
  /\ UNCHANGED <<CliVars, NetVars, PwVars>>

Next ==
  \/ Verbose_action
  \/ Quiet_action
  \/ Help
  \/ ParseReturn
  \/ BasicConfig
  \/ ReadConfig
  \/ LoginSend
  \/ LoginRecv
  \/ CreateSend
  \/ CreateRecv
  \/ LogoutSend
  \/ LogoutRecv
  \/ MainReturn
  \/ term_sig_handler

Spec == Init /\ [][Next]_vars

\* ------------------------------------------ the pure functions on their own
\* convert_int_to_logging_level applied to every verbosity of -MaxV..MaxV.
InitLevel ==
  /\ pc = "convert"
  /\ verbose \in {<<v>> : v \in -MaxV..MaxV}
  /\ inputs = <<>> /\ nflags = 0 /\ level = <<>> /\ add_url = None
  /\ NothingSent
  /\ NoPasswordCall

ConvertLevel ==
  /\ pc = "convert"
  /\ level' = <<convert_int_to_logging_level(verbose[1])>>
  /\ pc' = "converted"
  /\ UNCHANGED <<inputs, nflags, verbose, add_url, exitcode, NetVars, PwVars>>

NextLevel == ConvertLevel

SpecLevel == InitLevel /\ [][NextLevel]_vars

\* get_password applied to every command and every subprocess outcome.
InitPw ==
  /\ pc = "get_password"
  /\ cmd \in PasswordCommands
  /\ run \in Runs
  /\ pwres = Returned(None)
  /\ inputs = <<>> /\ nflags = 0 /\ verbose = <<VerboseDefault>> /\ level = <<>>
  /\ add_url = None
  /\ NothingSent

GetPassword ==
  /\ pc = "get_password"
  /\ pwres' = get_password(cmd, run)
  /\ pc' = "got_password"
  /\ UNCHANGED <<cmd, run, CliVars, exitcode, NetVars>>

NextPw == GetPassword

SpecPw == InitPw /\ [][NextPw]_vars

\* ================================================================== claims
\* What the claims call a failed call: a non-200 status, or 200 with
\* success: false.
AnsweredFailure(r) == ~r.error /\ (r.status # 200 \/ (r.json /\ ~r.success))
\* ... and a call answered with HTTP 200 and success: true.
AnsweredSuccess(r) == ~r.error /\ r.status = 200 /\ r.json /\ r.success

IsLogin(q) == q.data.method = Lit("login")
IsCreate(q) == q.data.method = Lit("create")
IsLogout(q) == q.data.method = Lit("logout")
HasUri(q) == "uri" \in DOMAIN q.data
HasFile(q) == q.files # NoFiles

\* send_url is over: it returned, or an exception left it.
SendUrlOver == ret # "none"

\* C1: send_url returns true only if the login, task-creation and logout
\* calls were each issued in that order and each answered with HTTP 200 and
\* success: true; for every failure at any stage (configuration, credential
\* or network/API, a transport error included) send_url returns false, so
\* it never ends in another way than returning true or false.
C1_TrueOnlyAfterThreeSuccesses ==
  /\ ret = "True" =>
       /\ Len(reqs) = 3 /\ Len(resps) = 3
       /\ IsLogin(reqs[1]) /\ IsCreate(reqs[2]) /\ IsLogout(reqs[3])
       /\ \A i \in 1..3 : AnsweredSuccess(resps[i])
  /\ SendUrlOver => ret \in {"True", "False"}

\* C2: if the login call fails (non-200 status, or HTTP 200 with success:
\* false), the overall result is false and no further request is issued:
\* the login request stays the only request, and it is not retried.
C2_LoginFailureStops ==
  (Len(resps) >= 1 /\ AnsweredFailure(resps[1])) =>
    /\ ret = "False"
    /\ Len(reqs) = 1 /\ IsLogin(reqs[1])
    /\ Len(resps) = 1
    /\ pc = "exit_main" => exitcode = <<1>>

C2_Witness ==
  /\ pc = "exit_main" /\ Len(resps) = 1
  /\ resps[1].status = 200 /\ resps[1].json /\ ~resps[1].success
  /\ ret = "False" /\ Len(reqs) = 1

\* C3: no network request is ever issued unless username, host and password
\* are all present and non-empty; when the config file is missing, or one of
\* the three values is absent or empty after read_config returned, send_url
\* returns false and has issued no request.
ConfigResolved ==
  pc \in {"login", "login_wait", "create", "create_wait", "logout", "logout_wait",
          "returning", "exit_main"}
  /\ ~(ret = "raised" /\ reqs = <<>>)

C3_NoRequestWithoutCredentials ==
  /\ reqs # <<>> => (Truthy(username) /\ Truthy(host) /\ Truthy(password))
  /\ (ConfigResolved /\ (~config.exists \/ ~Truthy(username) \/ ~Truthy(host)
                          \/ ~Truthy(password)))
       => (ret = "False" /\ reqs = <<>> /\ resps = <<>>)

C3_Witness ==
  /\ pc = "exit_main" /\ config.exists
  /\ username = <<"u">> /\ host = <<"h">> /\ password = None
  /\ ret = "False" /\ reqs = <<>> /\ exitcode = <<1>>

\* The targets the claims send down the URI path.
PrefixedTarget(t) ==
  StartsWith(t, <<"h", "t", "t", "p", ":">>) \/ StartsWith(t, <<"m", "a", "g", "n", "e", "t", ":">>)

\* The login succeeded and send_url went through its task-creation step.
CreationStepTaken ==
  /\ Len(resps) >= 1 /\ AnsweredSuccess(resps[1])
  /\ pc \in {"create_wait", "logout", "logout_wait", "returning", "exit_main"}

ClaimedLevel(v) ==
  IF v >= 2 THEN 10
  ELSE IF v = 1 THEN 20
  ELSE IF v = 0 THEN 30
  ELSE IF v = -1 THEN 40
  ELSE 50

C6_NoFlagMeansMidpoint ==
  /\ (pc = "parsed" /\ nflags = 0) => verbose = <<0>>
  /\ (pc = "send_url" /\ nflags = 0) => level = <<30>>

\* C7: get_password never raises and never returns an empty string: it
\* returns None when the command is empty or absent, when the subprocess
\* cannot be executed or exits with a non-zero status, and when the last
\* output line is empty; otherwise it returns the text after the last line
\* separator of the output stripped of its trailing line separators.
C7_PasswordOrNone ==
  pc = "got_password" =>
    /\ ~pwres.raised
    /\ pwres.value # <<>>
    /\ IF \/ ~Truthy(cmd)
          \/ run.kind # "ok"
          \/ AfterLast(RStrip(run.output, {LF}), LF) = <<>>
       THEN pwres.value = None
       ELSE pwres.value = AfterLast(RStrip(run.output, {LF}), LF)

\* C8 as stated: the process exit code is 0 if and only if send_url
\* returned true, and it is 1 in every other outcome.
C8_ExitZeroIffTrue ==
  Exited =>
    /\ exitcode = <<0>> <=> ret = "True"
    /\ ret # "True" => exitcode = <<1>>

\* C8 amended: when the command line parses and main gets to return, the
\* exit code is 0 if and only if send_url returned true and 1 otherwise
\* (send_url returned false, or an exception left it); an interrupt at any
\* point after the handler is installed, an in-flight call included, exits
\* with 1, also when it arrives after send_url returned true; -h exits
\* with 0 and a usage error with 2, both before send_url is called.
C8_ExitCode ==
  Exited =>
    /\ pc = "exit_main" =>
         /\ exitcode = <<0>> <=> ret = "True"
         /\ ret # "True" => exitcode = <<1>>
    /\ pc = "exit_signal" => exitcode = <<1>>
    /\ pc = "exit_help" => (exitcode = <<0>> /\ ret = "none" /\ reqs = <<>>)
    /\ pc = "exit_usage" => (exitcode = <<2>> /\ ret = "none" /\ reqs = <<>>)
    /\ exitcode = <<0>> => (ret = "True" \/ pc = "exit_help")

\* An interrupt during the in-flight task-creation call.
C8_Witness ==
  /\ pc = "exit_signal" /\ exitcode = <<1>>
  /\ Len(reqs) = 2 /\ Len(resps) = 1 /\ ret = "none"

\* C9: if the task-creation call fails (non-200 status or success: false)
\* after a successful login, send_url returns false at once and issues no
\* logout request; a logout request is issued only after a successful task
\* creation.
C9_CreateFailureSkipsLogout ==
  /\ (Len(resps) >= 2 /\ AnsweredFailure(resps[2])) =>
       /\ ret = "False"
       /\ Len(reqs) = 2 /\ Len(resps) = 2
       /\ \A i \in 1..Len(reqs) : ~IsLogout(reqs[i])
  /\ \A i \in 1..Len(reqs) :
       IsLogout(reqs[i]) =>
         /\ i = 3 /\ Len(resps) >= 2
         /\ AnsweredSuccess(resps[1]) /\ AnsweredSuccess(resps[2])

C9_Witness ==
  /\ pc = "exit_main" /\ ret = "False" /\ exitcode = <<1>>
  /\ Len(resps) = 2 /\ AnsweredSuccess(resps[1]) /\ resps[2].status = 404
  /\ Len(reqs) = 2 /\ IsLogin(reqs[1]) /\ IsCreate(reqs[2])

\* os.path.basename: the text after the last "/".
Basename(path) == AfterLast(path, "/")

\* C10: on the local-file path the multipart request attaches the file
\* under field "file" with the target's basename as its file name, not the
\* full path of the command line, carries as auth token the sid of this
\* invocation's login response, and has no uri field.
C10_FileUploadUsesBasename ==
  \A i \in 1..Len(reqs) :
    HasFile(reqs[i]) =>
      /\ Len(reqs[i].files) = 1
      /\ reqs[i].files[1].field = "file"
      /\ reqs[i].files[1].filename = Basename(add_url)
      /\ reqs[i].data._sid = resps[1].sid
      /\ ~HasUri(reqs[i])
====
